---- MODULE Spec2Model ----
(***************************************************************************)
(* symlink2file: a run of rootCmd.RunE over a small directory tree.        *)
(* The filesystem is a function from the paths that exist to their         *)
(* entries; a path is a sequence of names below "/".  The walk is          *)
(* filepath.WalkDir as processSymlinks drives it, processPath,             *)
(* backupSymlink and replaceSymlinkWithFile are taken step by step, one    *)
(* system call at a time, and every call whose error the code checks may   *)
(* fail.                                                                   *)
(***************************************************************************)
EXTENDS Integers, Sequences, FiniteSets, TLC

\* ------------------------------------------------------------------ bounds
\* length of the content of the file outside the target directory
FileLen == 2
\* links filepath.EvalSymlinks follows before it gives up
MaxLinksWalked == 3
\* runs of the program in one behaviour
MaxRuns == 2

\* ------------------------------------------------------------------ paths
RootNames == {"T", "T.symlink2file"}
\* directory listings are sorted by name (os.ReadDir), bytewise
NameOrder == <<".symlink2file", ".tmp-1", "a", "a.symlink2file", "b", "s">>
\* strings.Contains(name, ".symlink2file") for the names of the model
NameHasMarker(n) == n \in {".symlink2file", "a.symlink2file", "T.symlink2file"}
TempNames == {".tmp-1"}

Dir(p) == SubSeq(p, 1, Len(p) - 1)
Base(p) == p[Len(p)]
Join(d, n) == Append(d, n)
IsPrefix(d, p) == Len(d) <= Len(p) /\ SubSeq(p, 1, Len(d)) = d

\* strings.Contains(path, ".symlink2file"): the marker holds no separator, so
\* it lies in the path exactly when it lies in one of its components
PathHasMarker(p) == \E i \in 1..Len(p) : NameHasMarker(p[i])

\* ------------------------------------------------------------------ entries
NoDest == [abs |-> FALSE, comps |-> <<>>]
DirE == [kind |-> "dir", content |-> <<>>, dest |-> NoDest,
         mode |-> "0755", mtime |-> 0, atime |-> 0]
FileE(c, m, mt, at) == [kind |-> "file", content |-> c, dest |-> NoDest,
                        mode |-> m, mtime |-> mt, atime |-> at]
LinkE(d) == [kind |-> "link", content |-> <<>>, dest |-> d,
             mode |-> "0777", mtime |-> 0, atime |-> 0]
AbsDest(p) == [abs |-> TRUE, comps |-> p]
RelDest(p) == [abs |-> FALSE, comps |-> p]

Exists(f, p) == p \in DOMAIN f
IsLink(f, p) == p \in DOMAIN f /\ f[p].kind = "link"
IsFile(f, p) == p \in DOMAIN f /\ f[p].kind = "file"
IsDirectory(f, p) == p \in DOMAIN f /\ f[p].kind = "dir"
Put(f, p, e) == [q \in DOMAIN f \cup {p} |-> IF q = p THEN e ELSE f[q]]
Del(f, p) == [q \in DOMAIN f \ {p} |-> f[q]]

\* filepath.EvalSymlinks: every component must exist, links are followed
\* (relative ones from the directory that holds them), too many links is an
\* error, and a regular file cannot have components below it
EvalErr == [ok |-> FALSE, path |-> <<>>]
RECURSIVE WalkSymlinks(_, _, _, _)
WalkSymlinks(f, done, rest, hops) ==
    IF rest = <<>> THEN [ok |-> TRUE, path |-> done]
    ELSE LET p == Append(done, Head(rest)) IN
         IF p \notin DOMAIN f THEN EvalErr
         ELSE IF f[p].kind = "link"
              THEN IF hops = 0 THEN EvalErr
                   ELSE LET d == f[p].dest
                            np == (IF d.abs THEN d.comps ELSE done \o d.comps)
                                  \o Tail(rest)
                        IN WalkSymlinks(f, <<>>, np, hops - 1)
              ELSE IF f[p].kind = "file" /\ Tail(rest) # <<>> THEN EvalErr
              ELSE WalkSymlinks(f, p, Tail(rest), hops)
EvalSymlinks(f, p) == WalkSymlinks(f, <<>>, p, MaxLinksWalked)

\* os.ReadDir: the names in a directory, sorted, each with the type it has
\* when the directory is read
ReadDir(f, d) ==
    LET names == SelectSeq(NameOrder, LAMBDA n : Join(d, n) \in DOMAIN f)
    IN [i \in 1..Len(names) |-> [name |-> names[i], kind |-> f[Join(d, names[i])].kind]]

\* ------------------------------------------------------------------ trees
\* content of the file outside the target directory: <<1, ..., FileLen>>
ExtContent == [i \in 1..FileLen |-> i]
ExtFile == <<"X", "f">>

\* the tree under the target directory r: what lies at a, b, a.symlink2file,
\* s/a and in a backup directory left by an earlier run
ChoicesA == {"none", "rel_b", "abs_ext", "abs_dir", "rel_backup_b"}
ChoicesB == {"none", "file", "abs_ext", "rel_a"}
ChoicesK == {"none", "file", "abs_ext"}
ChoicesSA == {"none", "abs_ext", "rel_b"}
ChoicesOld == {"none", "backup_a"}

DestOf(r, c) ==
    CASE c = "rel_b" -> RelDest(<<"b">>)
      [] c = "rel_a" -> RelDest(<<"a">>)
      [] c = "abs_ext" -> AbsDest(ExtFile)
      [] c = "abs_dir" -> AbsDest(<<r, "s">>)
      [] c = "rel_backup_b" -> RelDest(<<".symlink2file", "b">>)

Slot(p, r, c) ==
    IF c = "none" THEN <<>>
    ELSE IF c = "file" THEN <<[path |-> p, entry |-> FileE(<<7>>, "0600", 3, 4)]>>
    ELSE <<[path |-> p, entry |-> LinkE(DestOf(r, c))]>>

Tree(r, ca, cb, ck, csa, cold) ==
    LET base == << [path |-> <<"X">>, entry |-> DirE],
                   [path |-> ExtFile, entry |-> FileE(ExtContent, "0644", 1, 2)],
                   [path |-> <<r>>, entry |-> DirE],
                   [path |-> <<r, "s">>, entry |-> DirE] >>
        old == IF cold = "none" THEN <<>>
               ELSE << [path |-> <<r, ".symlink2file">>, entry |-> DirE],
                       [path |-> <<r, ".symlink2file", "a">>,
                        entry |-> LinkE(AbsDest(ExtFile))] >>
        all == base \o old \o Slot(<<r, "a">>, r, ca) \o Slot(<<r, "b">>, r, cb)
                    \o Slot(<<r, "a.symlink2file">>, r, ck)
                    \o Slot(<<r, "s", "a">>, r, csa)
    IN [p \in {all[i].path : i \in 1..Len(all)} |->
          all[CHOOSE i \in 1..Len(all) : all[i].path = p].entry]

\* ------------------------------------------------------------------ state
VARIABLES
    fs,                 \* the filesystem: path -> entry, for the paths that exist
    targetDir,          \* args[0] made absolute
    noBackup, noRecurse, brokenSymlinks,    \* the flags
    processedSymlinks,  \* the keys of the map that hold true
    ctxDone,            \* cancel() was called: ctx.Done() is closed
    cancelledAt,        \* history: how far the run was when cancel() was called
    pc,                 \* where the run is
    stack,              \* filepath.WalkDir: the directories being listed
    symlinkPath,        \* the path processPath was called with
    broken,             \* filepath.EvalSymlinks returned an error for it
    targetFilePath,     \* resolvedPath
    tempPath,           \* tempFile.Name(), <<>> while there is none
    originalFileInfo,   \* os.Stat(targetFilePath)
    outcome,            \* how the run ended
    count,              \* the count the run printed
    run,                \* number of the run
    fs0,                \* history: the filesystem when the run started
    srcContent,         \* history: content of resolvedPath when it was resolved
    failedAt,           \* history: the step that returned the error, "" if none
    errPath,            \* history: the path the returned error names, <<>> if none
    cleanup,            \* history: what the deferred function did with the temporary file
    done,               \* history: the calls of processPath that returned nil
    visited             \* history: the paths passed to processPath, in order

vars == <<fs, targetDir, noBackup, noRecurse, brokenSymlinks, processedSymlinks,
          ctxDone, cancelledAt, pc, stack, symlinkPath, broken, targetFilePath,
          tempPath,
          originalFileInfo, outcome, count, run, fs0, srcContent, failedAt, errPath,
          cleanup,
          done, visited>>

flags == <<targetDir, noBackup, noRecurse, brokenSymlinks>>
result == <<outcome, count, run, fs0>>
link == <<symlinkPath, broken, targetFilePath, srcContent>>
replaceVars == <<tempPath, originalFileInfo>>
failure == <<failedAt, errPath, cleanup>>

NoInfo == [mode |-> "", mtime |-> 0, atime |-> 0]
\* cancel() was not called
NotCancelled == [started |-> -1, finished |-> -1]

\* filepath.WalkDir(targetDir, walkFunc) starts with the root itself
StartStack(root) == << [dir |-> Dir(root),
                        names |-> <<[name |-> Base(root), kind |-> "dir"]>>] >>

Init ==
    /\ \E r \in RootNames, ca \in ChoicesA, cb \in ChoicesB, ck \in ChoicesK,
          csa \in ChoicesSA, cold \in ChoicesOld :
          /\ fs = Tree(r, ca, cb, ck, csa, cold)
          /\ targetDir = <<r>>
    /\ noBackup \in BOOLEAN
    /\ noRecurse \in BOOLEAN
    /\ brokenSymlinks \in {"keep", "delete"}
    /\ processedSymlinks = {}
    /\ ctxDone = FALSE
    /\ cancelledAt = NotCancelled
    /\ pc = "walk"
    /\ stack = StartStack(targetDir)
    /\ symlinkPath = <<>>
    /\ broken = FALSE
    /\ targetFilePath = <<>>
    /\ tempPath = <<>>
    /\ originalFileInfo = NoInfo
    /\ outcome = "running"
    /\ count = 0
    /\ run = 1
    /\ fs0 = fs
    /\ srcContent = <<>>
    /\ failedAt = ""
    /\ errPath = <<>>
    /\ cleanup = ""
    /\ done = {}
    /\ visited = <<>>

\* mutant: walkFunc drops the error and the walk goes on
ReturnsErrorSwallowed == pc' = "walk" /\ failedAt' = pc /\ errPath' = symlinkPath

\* a step returns an error, which processSymlinks hands back to RunE; the
\* error of the walk and the errors of the steps on a link are wrapped with
\* the path (%q), ctx.Err() is returned as it is
ReturnsError ==
    /\ pc' = "returned"
    /\ failedAt' = pc
    /\ errPath' = IF pc = "walk" THEN Join(stack[Len(stack)].dir,
                                           Head(stack[Len(stack)].names).name)
                  ELSE IF pc = "processPath" THEN <<>> ELSE symlinkPath

\* processPath returns nil, the link kept, deleted or converted
Returned(how) == [run |-> run, path |-> symlinkPath, how |-> how, content |-> srcContent]
ReturnsNil(how) ==
    /\ pc' = "walk"
    /\ done' = done \cup {Returned(how)}
    /\ UNCHANGED failure

\* ------------------------------------------------------------------ walk
Top == stack[Len(stack)]
NextEntry == Head(Top.names)
NextPath == Join(Top.dir, NextEntry.name)
Walking == pc = "walk" /\ stack # <<>> /\ Top.names # <<>>
\* mutant: the loop of walkDir stays at the name it is at
AdvanceStuck == stack
\* mutant: a directory listed to its end is never left
PopNothing == stack

\* the loop of walkDir moves on to the next name of the directory
Advance == [stack EXCEPT ![Len(stack)].names = Tail(@)]
Pop == SubSeq(stack, 1, Len(stack) - 1)

\* mutant: the test for the backup directory is left out
SkipsEntryNoMarker(p, isDir) == isDir /\ noRecurse /\ p # targetDir

\* walkFunc returns filepath.SkipDir
SkipsEntry(p, isDir) ==
    PathHasMarker(p) \/ (isDir /\ noRecurse /\ p # targetDir)

\* SkipDir for a directory skips that directory; for any other entry it
\* skips what is left of the directory that holds the entry
WalkSkip ==
    /\ Walking
    /\ SkipsEntry(NextPath, NextEntry.kind = "dir")
    /\ stack' = IF NextEntry.kind = "dir" THEN Advance ELSE Pop
    /\ UNCHANGED <<fs, flags, processedSymlinks, ctxDone, cancelledAt, pc, link, replaceVars,
                   result, failure, done, visited>>

\* walkFunc returns nil for a directory: WalkDir reads and lists it
WalkDirEnter ==
    /\ Walking
    /\ ~SkipsEntry(NextPath, NextEntry.kind = "dir")
    /\ NextEntry.kind = "dir"
    /\ stack' = Append(Advance, [dir |-> NextPath, names |-> ReadDir(fs, NextPath)])
    /\ UNCHANGED <<fs, flags, processedSymlinks, ctxDone, cancelledAt, pc, link, replaceVars,
                   result, failure, done, visited>>

\* mutant: a directory that cannot be read is passed over and the walk goes on
WalkDirErrorSkipped ==
    /\ Walking
    /\ ~SkipsEntry(NextPath, NextEntry.kind = "dir")
    /\ NextEntry.kind = "dir"
    /\ stack' = Advance
    /\ failedAt' = "walk"
    /\ errPath' = NextPath
    /\ UNCHANGED cleanup
    /\ UNCHANGED <<fs, flags, processedSymlinks, ctxDone, cancelledAt, pc, link,
                   replaceVars, result, done, visited>>

\* os.ReadDir fails: walkFunc is called with the error and returns it wrapped
WalkDirError ==
    /\ Walking
    /\ ~SkipsEntry(NextPath, NextEntry.kind = "dir")
    /\ NextEntry.kind = "dir"
    /\ ReturnsError /\ UNCHANGED cleanup
    /\ UNCHANGED <<fs, flags, processedSymlinks, ctxDone, cancelledAt, stack, link, replaceVars,
                   result, done, visited>>

\* neither skipped, nor a directory, nor a symlink: walkFunc returns nil
WalkFile ==
    /\ Walking
    /\ ~SkipsEntry(NextPath, FALSE)
    /\ NextEntry.kind = "file"
    /\ stack' = Advance
    /\ UNCHANGED <<fs, flags, processedSymlinks, ctxDone, cancelledAt, pc, link, replaceVars,
                   result, failure, done, visited>>

\* info.Type()&os.ModeSymlink != 0: walkFunc calls processPath
WalkSymlink ==
    /\ Walking
    /\ ~SkipsEntry(NextPath, FALSE)
    /\ NextEntry.kind = "link"
    /\ pc' = "processPath"
    /\ symlinkPath' = NextPath
    /\ visited' = Append(visited, NextPath)
    /\ stack' = Advance
    /\ UNCHANGED <<fs, flags, processedSymlinks, ctxDone, cancelledAt, broken, targetFilePath,
                   srcContent, replaceVars, result, failure, done>>

\* a directory is listed to its end
WalkPop ==
    /\ pc = "walk" /\ stack # <<>> /\ Top.names = <<>>
    /\ stack' = Pop
    /\ UNCHANGED <<fs, flags, processedSymlinks, ctxDone, cancelledAt, pc, link, replaceVars,
                   result, failure, done, visited>>

\* ------------------------------------------------------------------ processPath
\* mutant: a broken link is backed up whatever the policy
BackupBrokenAnyPolicy(err) == err /\ ~noBackup

\* mutant: a broken link is never backed up
BackupBrokenNever(err) == FALSE

\* err != nil && !*noBackup && brokenSymlinks == "delete"
BackupBrokenFirst(err) == err /\ ~noBackup /\ brokenSymlinks = "delete"
\* if err != nil { if brokenSymlinks == "delete" { os.Remove ...
RemovesBroken(err) == err /\ brokenSymlinks = "delete"
\* mutant: the flag is read the wrong way round
BackupHealthyInverted == noBackup

\* if !*noBackup { backupSymlink ...
BackupHealthy == ~noBackup

\* mutant: processPath does not look at the context
CtxNeverChecked == FALSE

\* select { case <-ctx.Done(): ... default: }
CtxCancelled == ctxDone

\* processPath up to the branch it takes: the select on ctx.Done(), the
\* already-processed guard, filepath.EvalSymlinks(path) and the tests on err
ProcessPath ==
    /\ pc = "processPath"
    /\ IF CtxCancelled
       THEN \* case <-ctx.Done(): return ctx.Err()
            /\ ReturnsError /\ UNCHANGED cleanup
            /\ UNCHANGED <<broken, targetFilePath, srcContent, done>>
       ELSE IF symlinkPath \in processedSymlinks
       THEN \* Symlink already processed, skipping
            /\ pc' = "walk"
            /\ UNCHANGED <<broken, targetFilePath, srcContent, done, failure>>
       ELSE LET r == EvalSymlinks(fs, symlinkPath) IN
            /\ broken' = ~r.ok
            /\ targetFilePath' = r.path
            /\ srcContent' = IF r.ok THEN fs[r.path].content ELSE <<>>
            /\ IF ~r.ok
               THEN IF BackupBrokenFirst(~r.ok)
                    THEN pc' = "backupSymlink" /\ UNCHANGED <<done, failure>>
                    ELSE IF RemovesBroken(~r.ok)
                    THEN pc' = "removeBroken" /\ UNCHANGED <<done, failure>>
                    ELSE \* Keeping broken symlink
                         /\ pc' = "walk"
                         /\ done' = done \cup {[run |-> run, path |-> symlinkPath,
                                                how |-> "kept", content |-> <<>>]}
                         /\ UNCHANGED failure
               ELSE /\ pc' = IF BackupHealthy THEN "backupSymlink" ELSE "createTemp"
                    /\ UNCHANGED <<done, failure>>
    /\ UNCHANGED <<fs, flags, processedSymlinks, ctxDone, cancelledAt, stack, symlinkPath,
                   replaceVars, result, visited>>

\* ------------------------------------------------------------------ backupSymlink
BackupDir(p) == Join(Dir(p), ".symlink2file")
BackupPath(p) == Join(BackupDir(p), Base(p))
\* os.Stat(backupDir) says it does not exist, and os.Mkdir creates it
WithBackupDir(f, p) ==
    IF Exists(f, BackupDir(p)) THEN f ELSE Put(f, BackupDir(p), DirE)
\* mutant: os.Symlink replaces an entry that is in its way
CanSymlinkOverwrite(f, p) == IsDirectory(f, BackupDir(p))

\* os.Symlink(linkDest, backupPath) can succeed
CanSymlink(f, p) == IsDirectory(f, BackupDir(p)) /\ ~Exists(f, BackupPath(p))
\* mutant: the backup points at the path of the link, not at its destination
BackupEntrySelf(f, p) == LinkE(AbsDest(p))

\* the backup entry os.Symlink creates
BackupEntry(f, p) == LinkE(f[p].dest)

BackupSymlink ==
    /\ pc = "backupSymlink"
    /\ \E res \in {"mkdir failed", "readlink failed", "symlink failed", "ok"} :
       LET f1 == WithBackupDir(fs, symlinkPath) IN
       \/ /\ res = "mkdir failed"
          /\ ~Exists(fs, BackupDir(symlinkPath))
          /\ fs' = fs
          /\ ReturnsError /\ UNCHANGED cleanup
          /\ UNCHANGED <<processedSymlinks, done>>
       \/ /\ res \in {"readlink failed", "symlink failed"}
          /\ fs' = f1
          /\ ReturnsError /\ UNCHANGED cleanup
          /\ UNCHANGED <<processedSymlinks, done>>
       \/ /\ res = "ok"
          /\ CanSymlink(f1, symlinkPath)
          /\ fs' = Put(f1, BackupPath(symlinkPath), BackupEntry(fs, symlinkPath))
          /\ processedSymlinks' = processedSymlinks \cup {symlinkPath}
          /\ IF ~broken THEN pc' = "createTemp" /\ UNCHANGED <<done, failure>>
             ELSE IF RemovesBroken(broken)
             THEN pc' = "removeBroken" /\ UNCHANGED <<done, failure>>
             ELSE ReturnsNil("kept")
    /\ UNCHANGED <<flags, ctxDone, cancelledAt, stack, link, replaceVars, result, visited>>

\* os.Remove(path) of a broken link
RemoveBroken ==
    /\ pc = "removeBroken"
    /\ \E ok \in BOOLEAN :
       IF ok THEN /\ fs' = Del(fs, symlinkPath)
                  /\ ReturnsNil("deleted")
             ELSE /\ ReturnsError /\ UNCHANGED cleanup
                  /\ UNCHANGED <<fs, done>>
    /\ UNCHANGED <<flags, processedSymlinks, ctxDone, cancelledAt, stack, link, replaceVars,
                   result, visited>>

\* ------------------------------------------------------------------ replaceSymlinkWithFile
\* mutant: the deferred function removes the symlink path
CleanupSymlinkPath(f) == IF Exists(f, symlinkPath) THEN Del(f, symlinkPath) ELSE f

\* the deferred function: the temporary file is removed if it still exists
Cleanup(f) == IF tempPath # <<>> /\ Exists(f, tempPath) THEN Del(f, tempPath) ELSE f

\* a step of replaceSymlinkWithFile returns an error: the deferred function
\* runs and processPath returns the error wrapped. os.Stat(tempPath) fails
\* when the file is gone; os.Remove(tempPath) removes it, or fails, and its
\* error is dropped
ReplaceFails ==
    /\ \E removed \in BOOLEAN :
          /\ fs' = IF removed THEN Cleanup(fs) ELSE fs
          /\ cleanup' = IF ~(tempPath # <<>> /\ Exists(fs, tempPath)) THEN "gone"
                        ELSE IF removed THEN "removed" ELSE "left"
    /\ ReturnsError
    /\ UNCHANGED <<processedSymlinks, replaceVars, done>>

\* a step that changes neither the filesystem nor the variables succeeds
StepTo(next) ==
    /\ pc' = next
    /\ UNCHANGED <<fs, processedSymlinks, replaceVars, done, failure>>

\* the part every step of replaceSymlinkWithFile leaves alone
ReplaceFrame == UNCHANGED <<flags, ctxDone, cancelledAt, stack, link, result, visited>>

\* mutant: the temporary file is made in the system's directory for them
TempDirSystem(p) == <<"X">>

\* dir := filepath.Dir(symlinkPath)
TempDir(p) == Dir(p)

\* os.CreateTemp(dir, ".tmp-*"): a new empty file, mode 0600, in the
\* directory of the symlink
CreateTemp ==
    /\ pc = "createTemp"
    /\ \/ \E n \in TempNames :
            LET tp == Join(TempDir(symlinkPath), n) IN
            /\ ~Exists(fs, tp)
            /\ fs' = Put(fs, tp, FileE(<<>>, "0600", 9, 9))
            /\ tempPath' = tp
            /\ pc' = "open"
            /\ UNCHANGED <<processedSymlinks, originalFileInfo, done, failure>>
       \/ /\ ReturnsError /\ UNCHANGED cleanup
          /\ UNCHANGED <<fs, processedSymlinks, replaceVars, done>>
    /\ ReplaceFrame

\* os.Open(targetFilePath)
OpenTarget ==
    /\ pc = "open"
    /\ \E ok \in BOOLEAN : IF ok THEN StepTo("copy") ELSE ReplaceFails
    /\ ReplaceFrame

\* mutant: the read offset never advances
CopyChunkStuck(written, src) == Append(written, src[1])
\* mutant: one read instead of a loop to the end of the source
CopyCompleteShort(written, src) == Len(written) >= 1

\* the bytes io.Copy has written to the temporary file after one more chunk
CopyChunk(written, src) == Append(written, src[Len(written) + 1])
\* io.Copy has read the source to its end
CopyComplete(written, src) == Len(written) >= Len(src)

\* mutant: reading a directory gives no bytes and no error
CanReadAnything(e) == TRUE

\* inputFile.Read succeeds: the entry opened is a regular file
CanRead(e) == e.kind = "file"

\* io.Copy(tempFile, inputFile), a chunk at a time; reading a directory fails
Copy ==
    /\ pc = "copy"
    /\ LET src == fs[targetFilePath]
           tmp == fs[tempPath]
       IN \/ /\ CanRead(src)
             /\ ~CopyComplete(tmp.content, src.content)
             /\ fs' = [fs EXCEPT ![tempPath].content = CopyChunk(@, src.content)]
             /\ pc' = "copy"
             /\ UNCHANGED <<processedSymlinks, replaceVars, done, failure>>
          \/ /\ CanRead(src)
             /\ CopyComplete(tmp.content, src.content)
             /\ StepTo("stat")
          \/ ReplaceFails
    /\ ReplaceFrame

\* os.Stat(targetFilePath)
StatTarget ==
    /\ pc = "stat"
    /\ \E ok \in BOOLEAN :
       IF ok THEN /\ originalFileInfo' = [mode |-> fs[targetFilePath].mode,
                                          mtime |-> fs[targetFilePath].mtime,
                                          atime |-> fs[targetFilePath].atime]
                  /\ pc' = "chmod"
                  /\ UNCHANGED <<fs, processedSymlinks, tempPath, done, failure>>
             ELSE ReplaceFails
    /\ ReplaceFrame

\* tempFile.Chmod(originalFileInfo.Mode())
Chmod ==
    /\ pc = "chmod"
    /\ \E ok \in BOOLEAN :
       IF ok THEN /\ fs' = [fs EXCEPT ![tempPath].mode = originalFileInfo.mode]
                  /\ pc' = "sync"
                  /\ UNCHANGED <<processedSymlinks, replaceVars, done, failure>>
             ELSE ReplaceFails
    /\ ReplaceFrame

\* tempFile.Sync()
Sync ==
    /\ pc = "sync"
    /\ \E ok \in BOOLEAN : IF ok THEN StepTo("close") ELSE ReplaceFails
    /\ ReplaceFrame

\* tempFile.Close()
Close ==
    /\ pc = "close"
    /\ \E ok \in BOOLEAN : IF ok THEN StepTo("remove") ELSE ReplaceFails
    /\ ReplaceFrame

\* os.Remove(symlinkPath)
RemoveSymlink ==
    /\ pc = "remove"
    /\ \E ok \in BOOLEAN :
       IF ok THEN /\ fs' = Del(fs, symlinkPath)
                  /\ pc' = "rename"
                  /\ UNCHANGED <<processedSymlinks, replaceVars, done, failure>>
             ELSE ReplaceFails
    /\ ReplaceFrame

\* mutant: the resolved target itself is moved to the path of the symlink
RenamedTarget(f, from, to) ==
    Put(Del(Del(f, from), targetFilePath), to, f[targetFilePath])

\* the filesystem after os.Rename(from, to)
Renamed(f, from, to) == Put(Del(f, from), to, f[from])

\* os.Rename(tempPath, symlinkPath)
Rename ==
    /\ pc = "rename"
    /\ \E ok \in BOOLEAN :
       IF ok THEN /\ fs' = Renamed(fs, tempPath, symlinkPath)
                  /\ pc' = "chtimes"
                  /\ UNCHANGED <<processedSymlinks, replaceVars, done, failure>>
             ELSE ReplaceFails
    /\ ReplaceFrame

\* the entry after os.Chtimes(name, atime, mtime)
WithTimes(e, at, mt) == [e EXCEPT !.atime = at, !.mtime = mt]

\* os.Chtimes(symlinkPath, ModTime(), ModTime()); then replaceSymlinkWithFile
\* returns nil and processPath marks the path
Chtimes ==
    /\ pc = "chtimes"
    /\ \E ok \in BOOLEAN :
       IF ok THEN /\ fs' = [fs EXCEPT ![symlinkPath] =
                              WithTimes(@, originalFileInfo.mtime, originalFileInfo.mtime)]
                  /\ processedSymlinks' = processedSymlinks \cup {symlinkPath}
                  /\ ReturnsNil("converted")
                  /\ UNCHANGED replaceVars
             ELSE ReplaceFails
    /\ ReplaceFrame

\* ------------------------------------------------------------------ rootCmd.RunE
\* for _, processed := range processedSymlinks { if processed { count++ } }
CountProcessed == Cardinality(processedSymlinks)

\* filepath.WalkDir returned nil: the count is printed
RunESuccess ==
    /\ pc = "walk" /\ stack = <<>>
    /\ count' = CountProcessed
    /\ outcome' = "success"
    /\ pc' = "exit"
    /\ UNCHANGED <<fs, flags, processedSymlinks, ctxDone, cancelledAt, stack, link, replaceVars,
                   run, fs0, failure, done, visited>>

\* processSymlinks returned an error: if ctx.Err() != nil the run ends as
\* cancelled (exit status 130), else the error is returned
RunEError ==
    /\ pc = "returned"
    /\ outcome' = IF ctxDone THEN "cancelled" ELSE "error"
    /\ pc' = "exit"
    /\ UNCHANGED <<fs, flags, processedSymlinks, ctxDone, cancelledAt, stack, link, replaceVars,
                   count, run, fs0, failure, done, visited>>

\* the goroutine receives SIGINT or SIGTERM and calls cancel()
Signal ==
    /\ pc # "exit" /\ ~ctxDone
    /\ ctxDone' = TRUE
    /\ cancelledAt' = [started |-> IF pc = "processPath" THEN Len(visited) - 1
                                    ELSE Len(visited),
                        finished |-> Cardinality({d \in done : d.run = run})]
    /\ UNCHANGED <<fs, flags, processedSymlinks, pc, stack, link, replaceVars,
                   result, failure, done, visited>>

\* the program is run again, with the same options, on the tree a run that
\* ended in success has left
RunAgain ==
    /\ pc = "exit" /\ outcome = "success" /\ run < MaxRuns
    /\ processedSymlinks' = {}
    /\ ctxDone' = FALSE
    /\ cancelledAt' = NotCancelled
    /\ pc' = "walk"
    /\ stack' = StartStack(targetDir)
    /\ symlinkPath' = <<>>
    /\ broken' = FALSE
    /\ targetFilePath' = <<>>
    /\ tempPath' = <<>>
    /\ originalFileInfo' = NoInfo
    /\ outcome' = "running"
    /\ count' = 0
    /\ run' = run + 1
    /\ fs0' = fs
    /\ srcContent' = <<>>
    /\ visited' = <<>>
    /\ UNCHANGED <<fs, flags, failure, done>>

Next ==
    \/ WalkSkip \/ WalkDirEnter \/ WalkDirError \/ WalkFile \/ WalkSymlink \/ WalkPop
    \/ ProcessPath \/ BackupSymlink \/ RemoveBroken
    \/ CreateTemp \/ OpenTarget \/ Copy \/ StatTarget \/ Chmod \/ Sync \/ Close
    \/ RemoveSymlink \/ Rename \/ Chtimes
    \/ RunESuccess \/ RunEError \/ Signal \/ RunAgain

Spec == Init /\ [][Next]_vars

\* ------------------------------------------------------------------ properties
ThisRun == {d \in done : d.run = run}
Converted == {d \in ThisRun : d.how = "converted"}
Deleted == {d \in ThisRun : d.how = "deleted"}
Kept == {d \in ThisRun : d.how = "kept"}
Ended == pc \in {"returned", "exit"}
\* the steps of replaceSymlinkWithFile up to the removal of the symlink
BeforeRemoval == {"createTemp", "open", "copy", "stat", "chmod", "sync", "close",
                  "remove"}
ReplaceSteps == BeforeRemoval \cup {"rename", "chtimes"}
\* the path lies inside a .symlink2file directory
InsideBackup(p) == \E i \in 1..(Len(p) - 1) : p[i] = ".symlink2file"

\* C1: every healthy symlink processPath converts is left as a regular file
\* whose content is, byte for byte, that of the file the link resolved to when
\* it was converted: from the rename on, and for the rest of the run.
C1_ContentFidelity ==
    /\ pc = "chtimes" =>
          /\ IsFile(fs, symlinkPath)
          /\ fs[symlinkPath].content = srcContent
          /\ fs[symlinkPath].content = fs[targetFilePath].content
    /\ \A d \in Converted :
          /\ IsFile(fs, d.path)
          /\ fs[d.path].content = d.content
          /\ LET r == EvalSymlinks(fs0, d.path)
             IN r.ok /\ d.content = fs0[r.path].content

\* a link given by a relative destination, the first of a chain of two links,
\* is converted to the content of the file at the end of the chain
C1_Witness ==
    \E d \in Converted :
       /\ IsLink(fs0, d.path) /\ ~fs0[d.path].dest.abs
       /\ IsLink(fs0, Join(Dir(d.path), "b"))
       /\ d.content = ExtContent
       /\ fs[d.path].content = ExtContent

\* C2: when replaceSymlinkWithFile fails at a step before the symlink is
\* removed, the path still holds the original symlink with its original
\* destination, and so no regular file.
C2_LinkIntactBeforeRemoval ==
    (Ended /\ failedAt \in BeforeRemoval) =>
       /\ IsLink(fs, symlinkPath)
       /\ fs[symlinkPath] = fs0[symlinkPath]

\* the copy fails with part of the content written
C2_Witness ==
    /\ pc = "returned" /\ failedAt = "copy"
    /\ fs[targetFilePath].kind = "file"
    /\ IsLink(fs, symlinkPath)
    /\ tempPath # <<>> /\ ~Exists(fs, tempPath)

\* C3: whichever step of the replacement fails, the rename included, the path
\* of the symlink holds the original symlink or the regular-file copy once
\* the run has aborted.
C3_NeverMissingBoth ==
    (Ended /\ failedAt \in ReplaceSteps) =>
       (IsLink(fs, symlinkPath) \/ IsFile(fs, symlinkPath))

\* C4: in every state of a run, a path that held a symlink when the run
\* started and holds a regular file now holds the complete content of the
\* file the link resolved to; content in the making is in the temporary file.
C4_NoPartialFile ==
    \A p \in DOMAIN fs :
       (IsLink(fs0, p) /\ fs[p].kind = "file") =>
          LET r == EvalSymlinks(fs0, p)
          IN r.ok /\ fs0[r.path].kind = "file" /\ fs[p].content = fs0[r.path].content

\* the copy is half way: the temporary file holds a proper, non-empty prefix
\* and the symlink is still in place
C4_Witness ==
    /\ pc = "copy"
    /\ Len(fs[tempPath].content) > 0
    /\ Len(fs[tempPath].content) < Len(srcContent)
    /\ IsLink(fs, symlinkPath)

\* the broken links processPath has returned nil for in this run
BrokenDone == {d \in ThisRun : d.how # "converted"}
WasVisited(p) == \E i \in 1..Len(visited) : visited[i] = p

\* C5: a broken symlink processed with policy "keep" stays on disk as the
\* same link, is never marked in the processed-set, and gets no backup link;
\* a backup directory that appears next to it was made for another link.
C5_BrokenKeep ==
    brokenSymlinks = "keep" =>
       /\ broken => pc \notin {"backupSymlink", "removeBroken"}
       /\ \A d \in BrokenDone :
             /\ IsLink(fs, d.path)
             /\ fs[d.path] = fs0[d.path]
             /\ d.path \notin processedSymlinks
             /\ Exists(fs, BackupPath(d.path)) =>
                   /\ Exists(fs0, BackupPath(d.path))
                   /\ fs[BackupPath(d.path)] = fs0[BackupPath(d.path)]
             /\ (Exists(fs, BackupDir(d.path)) /\ ~Exists(fs0, BackupDir(d.path))) =>
                   \E i \in 1..Len(visited) :
                      /\ visited[i] # d.path
                      /\ BackupDir(visited[i]) = BackupDir(d.path)
                      /\ EvalSymlinks(fs0, visited[i]).ok

\* backups are on, a healthy link next to the kept one was backed up and
\* converted, and the run is over
C5_Witness ==
    /\ outcome = "success" /\ ~noBackup /\ brokenSymlinks = "keep"
    /\ \E d \in Kept :
          /\ IsLink(fs, d.path)
          /\ Exists(fs, BackupDir(d.path)) /\ ~Exists(fs0, BackupDir(d.path))
          /\ ~Exists(fs, BackupPath(d.path))

\* C6: a broken symlink processed with policy "delete" is gone from disk and,
\* with backups on, a symlink of the same name and the same destination
\* string lies in the .symlink2file directory next to where it was.
C6_BrokenDelete ==
    brokenSymlinks = "delete" =>
       \A d \in BrokenDone :
          /\ ~Exists(fs, d.path)
          /\ ~noBackup =>
                /\ IsLink(fs, BackupPath(d.path))
                /\ fs[BackupPath(d.path)].dest = fs0[d.path].dest

\* a broken link was deleted with backups on and the run is over
C6_Witness ==
    /\ outcome = "success" /\ ~noBackup
    /\ \E d \in Deleted :
          /\ ~Exists(fs, d.path)
          /\ IsLink(fs, BackupPath(d.path))
          /\ ~Exists(fs0, BackupPath(d.path))

\* C7: a run that ends in success reports as its count the number of
\* distinct symlink paths it converted or deleted.
C7_CountAccurate ==
    outcome = "success" =>
       count = Cardinality({d.path : d \in Converted \cup Deleted})

\* C8: with recursion off, every symlink that is a direct child of the
\* target directory is processed, and nothing below a subdirectory is
\* processed or changed.
C8_DirectChildrenProcessed ==
    (noRecurse /\ outcome = "success") =>
       \A p \in DOMAIN fs0 :
          (IsLink(fs0, p) /\ Dir(p) = targetDir) => WasVisited(p)

\* the half of C8 about subdirectories
C8_SubdirectoriesUntouched ==
    noRecurse =>
       /\ \A i \in 1..Len(visited) : Dir(visited[i]) = targetDir
       /\ \A p \in DOMAIN fs0 :
             (IsPrefix(targetDir, p) /\ Len(p) > Len(targetDir) + 1) =>
                (Exists(fs, p) /\ fs[p] = fs0[p])

\* C9: the walk never goes into a .symlink2file directory: no entry inside
\* one is passed to processPath, the entries an earlier run left there stay
\* as they are, and what this run puts there is a link and stays a link.
C9_BackupNotTraversed ==
    /\ \A i \in 1..Len(visited) : ~InsideBackup(visited[i])
    /\ \A i \in 1..Len(stack) : ".symlink2file" \notin {stack[i].dir[j] : j \in 1..Len(stack[i].dir)}
    /\ \A p \in DOMAIN fs0 : InsideBackup(p) => (Exists(fs, p) /\ fs[p] = fs0[p])
    /\ \A p \in DOMAIN fs : InsideBackup(p) => fs[p].kind = "link"

\* a recursive run ends in success with a healthy backup link of an earlier
\* run in the tree and a backup link of its own
C9_Witness ==
    /\ outcome = "success" /\ ~noRecurse
    /\ \E p \in DOMAIN fs0 :
          InsideBackup(p) /\ IsLink(fs0, p) /\ EvalSymlinks(fs0, p).ok
    /\ \E q \in DOMAIN fs : InsideBackup(q) /\ ~Exists(fs0, q)

\* C10: a second run, with the same options, on the tree a successful first
\* run has left changes nothing on disk and reports 0 processed links.
C10_Idempotent ==
    (run > 1 /\ outcome = "success") => (fs = fs0 /\ count = 0)

\* the broken links the run before this one kept are still broken
KeptStillBroken ==
    \A d \in done :
       (d.run = run - 1 /\ d.how = "kept") => ~EvalSymlinks(fs0, d.path).ok

\* C10 as amended: it changes nothing and reports 0 provided the broken links
\* the first run kept are still broken when the second run starts.
C10_IdempotentKeptBroken ==
    (run > 1 /\ KeptStillBroken) =>
       /\ fs = fs0
       /\ processedSymlinks = {}
       /\ outcome = "success" => count = 0

\* the second run ends in success on a tree where the first run converted a
\* link with a backup and kept a broken one
C10_Witness ==
    /\ run = 2 /\ outcome = "success" /\ KeptStillBroken
    /\ \E d \in done : d.run = 1 /\ d.how = "converted" /\ IsLink(fs, BackupPath(d.path))
    /\ \E d \in done : d.run = 1 /\ d.how = "kept" /\ WasVisited(d.path)

\* the backup of the link at p made by this run: a symbolic link in the
\* .symlink2file directory next to p that holds the destination string p had
BackedUp(p) ==
    /\ IsLink(fs, BackupPath(p))
    /\ ~Exists(fs0, BackupPath(p))
    /\ fs[BackupPath(p)].dest = fs0[p].dest

\* C11: with backups on, from the first step of the replacement of a healthy
\* symlink, and so when os.Remove takes the symlink away, the backup location
\* holds a symbolic link with the destination string of the original; it is
\* still there when the replacement has failed, when the link is converted
\* and when the run is over.
C11_BackupBeforeReplace ==
    ~noBackup =>
       /\ pc \in ReplaceSteps => BackedUp(symlinkPath)
       /\ pc \in BeforeRemoval =>
             fs[BackupPath(symlinkPath)].dest = fs[symlinkPath].dest
       /\ (Ended /\ failedAt \in ReplaceSteps) => BackedUp(symlinkPath)
       /\ \A d \in Converted : BackedUp(d.path)

\* os.Remove has just taken away a healthy symlink given by a relative
\* destination, and its backup holds that destination
C11_Witness ==
    /\ pc = "rename" /\ ~noBackup
    /\ ~Exists(fs, symlinkPath)
    /\ ~fs0[symlinkPath].dest.abs
    /\ BackedUp(symlinkPath)

\* the .symlink2file directories and backup entries this run has made
NewBackupDirs == {p \in DOMAIN fs : Base(p) = ".symlink2file" /\ ~Exists(fs0, p)}
NewBackups == {p \in DOMAIN fs : InsideBackup(p) /\ ~Exists(fs0, p)}

\* C12 as stated: a .symlink2file directory this run has made holds the
\* backup of a symlink of its directory, and backups are on.
C12_BackupDirOnlyWithBackup ==
    \A D \in NewBackupDirs :
       /\ ~noBackup
       /\ \E i \in 1..Len(visited) :
             BackupDir(visited[i]) = D /\ BackedUp(visited[i])

\* C12 as amended: a .symlink2file directory is made only with backups on
\* and when backupSymlink is called for a symlink of that directory, a
\* healthy one or a broken one under "delete"; os.Mkdir comes before
\* os.Readlink and os.Symlink, so the directory stays, empty if it was new,
\* when the backup link cannot be made and the run aborts. A kept link gets
\* no backup. With backups off no directory and no backup link is made, and
\* a run that ends in success has converted the healthy links it visited.
C12_BackupDirWhenBackupSymlinkCalled ==
    /\ \A D \in NewBackupDirs :
          /\ ~noBackup
          /\ IsDirectory(fs, D)
          /\ \E i \in 1..Len(visited) :
                /\ BackupDir(visited[i]) = D
                /\ IsLink(fs0, visited[i])
                /\ \/ BackedUp(visited[i])
                   \/ /\ Ended /\ failedAt = "backupSymlink"
                      /\ visited[i] = symlinkPath
                /\ (visited[i] = symlinkPath /\ broken) => brokenSymlinks = "delete"
    /\ \A d \in Kept : BackupPath(d.path) \notin NewBackups
    /\ noBackup =>
          /\ NewBackupDirs = {} /\ NewBackups = {}
          /\ pc # "backupSymlink"
          /\ outcome = "success" =>
                \A i \in 1..Len(visited) :
                   EvalSymlinks(fs0, visited[i]).ok => IsFile(fs, visited[i])

\* os.Symlink or os.Readlink has failed for the first link of a directory:
\* the run has aborted and the new .symlink2file directory is empty
C12_Witness ==
    /\ pc = "returned" /\ failedAt = "backupSymlink"
    /\ BackupDir(symlinkPath) \in NewBackupDirs
    /\ ReadDir(fs, BackupDir(symlinkPath)) = <<>>
    /\ IsLink(fs, symlinkPath)

\* the step of processPath that finds ctx.Done() closed
ObservesCancel == pc = "processPath" /\ ctxDone

\* C13: every call of processPath starts with the test of the context; the
\* call that finds it cancelled changes nothing on disk, in the processed-set
\* or in what was done, and returns ctx.Err(); after that no link is passed
\* to processPath, nothing changes on disk, and the run ends as cancelled.
C13_CancelObserved ==
    /\ [](failedAt = "processPath" =>
             /\ ctxDone /\ Ended
             /\ errPath = <<>>
             /\ visited[Len(visited)] = symlinkPath
             /\ \A d \in ThisRun : d.path # symlinkPath
             /\ symlinkPath \notin processedSymlinks
             /\ fs[symlinkPath] = fs0[symlinkPath]
             /\ BackupPath(symlinkPath) \notin NewBackups
             /\ pc = "exit" => (outcome = "cancelled" /\ count = 0))
    /\ [][ObservesCancel =>
             /\ pc' = "returned" /\ failedAt' = "processPath"
             /\ fs' = fs
             /\ processedSymlinks' = processedSymlinks
             /\ done' = done]_vars
    /\ [][failedAt = "processPath" =>
             (fs' = fs /\ visited' = visited /\ done' = done /\ stack' = stack)]_vars

\* a link was converted, the next one found the context cancelled, and the
\* run has ended as cancelled with that link still in place
C13_Witness ==
    /\ pc = "exit" /\ outcome = "cancelled" /\ failedAt = "processPath"
    /\ Converted # {}
    /\ Len(visited) >= 2
    /\ IsLink(fs, symlinkPath)

\* the links passed to processPath after cancel() was called
StartedAfterCancel == {visited[i] : i \in (cancelledAt.started + 1)..Len(visited)}

C15_CancelledReportsCount ==
    outcome = "cancelled" => count = CountProcessed

\* the steps on one link that can return an error
LinkSteps == {"backupSymlink", "removeBroken"} \cup ReplaceSteps
\* the symlinks of the start of the run that were not passed to processPath
\* are as they were
UnvisitedLinksIntact ==
    \A p \in DOMAIN fs0 :
       (IsLink(fs0, p) /\ ~WasVisited(p)) => (Exists(fs, p) /\ fs[p] = fs0[p])

\* C16: when a step on a link returns an error (backupSymlink: Mkdir,
\* Readlink, Symlink; the removal of a broken link; any step of the
\* replacement), the walk stops at that link: the error is wrapped with the
\* path of that link, no path is passed to processPath after it, nothing on
\* disk changes any more, the links not yet reached are as they were, and
\* the run does not end in success and reports no count.
C16_LinkErrorAborts ==
    /\ [](failedAt \in LinkSteps =>
             /\ Ended
             /\ errPath = symlinkPath
             /\ visited[Len(visited)] = symlinkPath
             /\ \A d \in ThisRun : d.path # symlinkPath
             /\ UnvisitedLinksIntact
             /\ outcome \in {"running", "error", "cancelled"}
             /\ (pc = "exit" /\ ~ctxDone) => outcome = "error"
             /\ count = 0)
    /\ [][(failedAt \in LinkSteps) =>
             (fs' = fs /\ processedSymlinks' = processedSymlinks /\
              visited' = visited /\ done' = done /\ stack' = stack)]_vars

\* a link was converted, a step on the next link failed, and a third link
\* was never reached
C16_Witness ==
    /\ pc = "exit" /\ outcome = "error" /\ failedAt \in LinkSteps
    /\ Converted # {}
    /\ \E p \in DOMAIN fs0 :
          /\ IsLink(fs0, p) /\ IsPrefix(targetDir, p) /\ ~InsideBackup(p)
          /\ ~WasVisited(p) /\ IsLink(fs, p)

\* C17: when reading a directory fails, walkFunc returns the error wrapped
\* with the path of that directory and the walk stops there: the directory
\* is not passed over (it is still the entry the walk is at), no path is
\* passed to processPath after it, nothing on disk changes, and the run does
\* not end in success and reports no count.
C17_WalkErrorAborts ==
    /\ [](failedAt = "walk" =>
             /\ Ended
             /\ errPath = NextPath
             /\ IsDirectory(fs, errPath) /\ ~SkipsEntry(errPath, TRUE)
             /\ \A i \in 1..Len(visited) : ~IsPrefix(errPath, visited[i])
             /\ UnvisitedLinksIntact
             /\ outcome \in {"running", "error", "cancelled"}
             /\ (pc = "exit" /\ ~ctxDone) => outcome = "error"
             /\ count = 0)
    /\ [][failedAt = "walk" =>
             (fs' = fs /\ processedSymlinks' = processedSymlinks /\
              visited' = visited /\ done' = done /\ stack' = stack)]_vars

\* a link of the target directory was converted, then the subdirectory could
\* not be read, and the link in it was never reached
C17_Witness ==
    /\ pc = "exit" /\ outcome = "error" /\ failedAt = "walk"
    /\ errPath # targetDir
    /\ Converted # {}
    /\ \E p \in DOMAIN fs0 : IsLink(fs0, p) /\ Dir(p) = errPath /\ IsLink(fs, p)

\* the entry at p is not what it was when the run started
Changed(p) ==
    \/ Exists(fs, p) # Exists(fs0, p)
    \/ Exists(fs, p) /\ Exists(fs0, p) /\ fs[p] # fs0[p]
\* every entry the run has created, removed or rewritten lies under the
\* target directory, the .symlink2file directories included
WritesInside ==
    \A p \in DOMAIN fs \cup DOMAIN fs0 : Changed(p) => IsPrefix(targetDir, p)
\* the steps that read the resolved target: os.Open, io.Copy, os.Stat
ReadSteps == {"open", "copy", "stat"}

\* C18 as stated: nothing is written and nothing is read outside the target
\* directory, wherever the resolved targets lie.
C18_NothingOutside ==
    /\ WritesInside
    /\ pc \in ReadSteps => IsPrefix(targetDir, targetFilePath)

\* C18 as amended: nothing is written outside the target directory and its
\* .symlink2file directories; outside them the run only reads, and the one
\* file it reads is the resolved target of the symlink it is converting,
\* which it leaves as it was.
C18_WritesInsideReadsTargets ==
    /\ WritesInside
    /\ tempPath # <<>> => IsPrefix(targetDir, tempPath)
    /\ pc \in ReadSteps =>
          /\ targetFilePath = EvalSymlinks(fs, symlinkPath).path
          /\ ~IsPrefix(targetDir, targetFilePath) =>
                /\ Exists(fs0, targetFilePath)
                /\ fs[targetFilePath] = fs0[targetFilePath]

\* the copy reads a target that lies outside the target directory into a
\* temporary file inside it
C18_Witness ==
    /\ pc = "copy"
    /\ ~IsPrefix(targetDir, targetFilePath)
    /\ Len(fs[tempPath].content) > 0
    /\ IsPrefix(targetDir, tempPath)

\* C19: every entry that was a regular file or a directory when the run
\* started, the resolved targets of the links inside and outside the target
\* directory among them, is there and as it was; an entry that differs from
\* the start was a symlink passed to processPath, or is the temporary file,
\* a .symlink2file directory or a backup link this run has made.
C19_TargetsAndFilesUntouched ==
    /\ \A p \in DOMAIN fs0 :
          fs0[p].kind \in {"file", "dir"} => (Exists(fs, p) /\ fs[p] = fs0[p])
    /\ \A i \in 1..Len(visited) :
          LET r == EvalSymlinks(fs0, visited[i])
          IN r.ok => /\ Exists(fs, r.path)
                     /\ fs[r.path].content = fs0[r.path].content
    /\ \A p \in DOMAIN fs \cup DOMAIN fs0 :
          Changed(p) =>
             \/ IsLink(fs0, p) /\ WasVisited(p)
             \/ /\ ~Exists(fs0, p)
                /\ p = tempPath \/ p \in NewBackupDirs \/ p \in NewBackups

\* a run ends in success having converted a link whose target is a file of
\* the target directory and a link whose target lies outside
C19_Witness ==
    /\ outcome = "success"
    /\ \E d \in Converted :
          LET r == EvalSymlinks(fs0, d.path)
          IN IsPrefix(targetDir, r.path) /\ IsFile(fs, r.path) /\ IsFile(fs, d.path)
    /\ \E d \in Converted : ~IsPrefix(targetDir, EvalSymlinks(fs0, d.path).path)

\* the symlinks under the target directory, outside the .symlink2file
\* directories, when the run started
LinksToProcess ==
    {p \in DOMAIN fs0 : IsLink(fs0, p) /\ IsPrefix(targetDir, p) /\ ~InsideBackup(p)}

\* C20: a recursive run that ends in success has passed every symlink under
\* the target directory, outside the backup directories, to processPath, and
\* none of those that resolved to a regular file is still a symlink.
C20_EveryLinkProcessed ==
    (~noRecurse /\ outcome = "success") =>
       \A p \in LinksToProcess :
          /\ WasVisited(p)
          /\ LET r == EvalSymlinks(fs0, p)
             IN (r.ok /\ IsFile(fs0, r.path)) => ~IsLink(fs, p)

\* C21: the regular file a replacement leaves has the modification time and
\* the access time of the resolved target, each its own.
C21_BothTimesPreserved ==
    \A d \in Converted :
       LET r == EvalSymlinks(fs0, d.path)
       IN /\ fs[d.path].mtime = fs0[r.path].mtime
          /\ fs[d.path].atime = fs0[r.path].atime

\* the names os.CreateTemp gives: the entries named so that this run made
TempFiles == {p \in DOMAIN fs : Base(p) \in TempNames /\ ~Exists(fs0, p)}
\* the steps of replaceSymlinkWithFile that run with the temporary file made
\* and not yet renamed
WithTempSteps == {"open", "copy", "stat", "chmod", "sync", "close", "remove", "rename"}

\* C22 as stated: after a replacement that failed with the temporary file
\* made, and after one that succeeded, no temporary file is left.
C22_NoTempLeft ==
    /\ (Ended /\ failedAt \in WithTempSteps) => TempFiles = {}
    /\ pc \in {"chtimes", "walk"} => TempFiles = {}

\* C22 as amended: the deferred function removes the temporary file when
\* os.Remove succeeds; it drops the error of os.Remove, and then the
\* temporary file of the failed replacement, and no other, is left. After
\* the rename, and so after every replacement that succeeded, none is left.
C22_TempRemovedUnlessRemoveFails ==
    /\ (Ended /\ failedAt \in WithTempSteps) =>
          /\ cleanup \in {"removed", "left"}
          /\ cleanup = "removed" => TempFiles = {}
          /\ cleanup = "left" => TempFiles = {tempPath}
    /\ (Ended /\ failedAt = "chtimes") => (cleanup = "gone" /\ TempFiles = {})
    /\ (Ended /\ failedAt \notin ReplaceSteps) => cleanup = ""
    /\ pc \in {"chtimes", "walk", "processPath", "backupSymlink", "removeBroken",
               "createTemp"} => TempFiles = {}
    /\ (outcome = "success") => TempFiles = {}
    /\ TempFiles \subseteq {tempPath}

\* the copy has failed half way and the deferred function has removed the
\* temporary file with part of the content in it
C22_Witness ==
    /\ pc = "returned" /\ failedAt = "copy" /\ cleanup = "removed"
    /\ fs[targetFilePath].kind = "file"
    /\ TempFiles = {}
    /\ Converted # {}

\* C23: in one run no path is passed to processPath twice, and every path
\* passed was a symlink outside the .symlink2file directories when the run
\* started, never an entry the run has made; so processPath never finds its
\* path marked in the processed-set and the skip branch is not taken.
C23_EachPathOnce ==
    /\ \A i, j \in 1..Len(visited) : visited[i] = visited[j] => i = j
    /\ \A i \in 1..Len(visited) :
          /\ IsLink(fs0, visited[i])
          /\ ~InsideBackup(visited[i])
          /\ visited[i] \notin TempFiles \cup NewBackups \cup NewBackupDirs
    /\ pc = "processPath" =>
          /\ symlinkPath \notin processedSymlinks
          /\ \A d \in ThisRun : d.path # symlinkPath

\* a recursive run with backups, in which temporary files, a backup
\* directory, backup links and converted files were made, passes its third
\* link to processPath
C23_Witness ==
    /\ pc = "processPath" /\ ~noBackup /\ ~noRecurse
    /\ Len(visited) >= 3
    /\ Cardinality(Converted) >= 2
    /\ NewBackupDirs # {}
    /\ Cardinality(processedSymlinks) >= 2

\* C24: with backups on and policy "delete", os.Remove is called for a
\* broken symlink only with its backup link made, every deleted link has its
\* backup, and when backupSymlink fails for a broken link the link is left
\* as it was and the run aborts without success.
C24_BrokenRemovedAfterBackup ==
    (~noBackup /\ brokenSymlinks = "delete") =>
       /\ pc = "removeBroken" =>
             /\ BackedUp(symlinkPath)
             /\ IsLink(fs, symlinkPath) /\ fs[symlinkPath] = fs0[symlinkPath]
       /\ \A d \in Deleted : BackedUp(d.path)
       /\ (Ended /\ failedAt = "backupSymlink" /\ broken) =>
             /\ IsLink(fs, symlinkPath) /\ fs[symlinkPath] = fs0[symlinkPath]
             /\ ~BackedUp(symlinkPath)
             /\ symlinkPath \notin processedSymlinks
             /\ \A d \in ThisRun : d.path # symlinkPath
             /\ errPath = symlinkPath
             /\ outcome \in {"running", "error", "cancelled"}
             /\ (pc = "exit" /\ ~ctxDone) => outcome = "error"

\* backupSymlink has failed for a broken link under "delete" after making
\* the backup directory: the link is in place and the run has ended in error
C24_Witness ==
    /\ pc = "exit" /\ outcome = "error" /\ failedAt = "backupSymlink"
    /\ broken /\ brokenSymlinks = "delete" /\ ~noBackup
    /\ IsLink(fs, symlinkPath)
    /\ BackupDir(symlinkPath) \in NewBackupDirs

\* the link resolves, and to something that is not a regular file
ResolvesToNonFile(p) ==
    LET r == EvalSymlinks(fs0, p) IN r.ok /\ ~IsFile(fs0, r.path)

\* C25: a symlink that resolves to something that cannot be opened or read
\* as a file is an error, not a skip. When os.Open or io.Copy fails the link
\* is in place as it was, the error names its path and the run does not end
\* in success; the walk never goes on past a link that resolves to a
\* directory, and no such link is converted, kept or deleted.
C25_UnreadableTargetIsError ==
    /\ (Ended /\ failedAt \in {"open", "copy"}) =>
          /\ IsLink(fs, symlinkPath) /\ fs[symlinkPath] = fs0[symlinkPath]
          /\ errPath = symlinkPath
          /\ \A d \in ThisRun : d.path # symlinkPath
          /\ outcome \in {"running", "error", "cancelled"}
          /\ (pc = "exit" /\ ~ctxDone) => outcome = "error"
    /\ \A i \in 1..Len(visited) :
          ResolvesToNonFile(visited[i]) =>
             /\ i = Len(visited)
             /\ pc \notin {"walk", "stat", "chmod", "sync", "close", "remove",
                           "rename", "chtimes"}
             /\ IsLink(fs, visited[i])
             /\ outcome # "success"
             /\ \A d \in ThisRun : d.path # visited[i]
             /\ (pc = "returned" /\ ~ctxDone) =>
                   failedAt \in {"backupSymlink", "createTemp", "open", "copy"}

\* the copy from a directory has failed: the link to the directory is in
\* place, its backup is made, and the run has ended in error
C25_Witness ==
    /\ pc = "exit" /\ outcome = "error" /\ failedAt = "copy"
    /\ IsDirectory(fs, targetFilePath)
    /\ IsLink(fs, symlinkPath)
    /\ BackedUp(symlinkPath)

\* the steps of the program itself: the walk, the steps on a link, and the
\* end of RunE; the signal and the next run come from outside
Program ==
    \/ WalkSkip \/ WalkDirEnter \/ WalkDirError \/ WalkFile \/ WalkSymlink \/ WalkPop
    \/ ProcessPath \/ BackupSymlink \/ RemoveBroken
    \/ CreateTemp \/ OpenTarget \/ Copy \/ StatTarget \/ Chmod \/ Sync \/ Close
    \/ RemoveSymlink \/ Rename \/ Chtimes
    \/ RunESuccess \/ RunEError

\* the process keeps running: a step of the program that can be taken is
\* taken in the end (no filesystem call blocks for ever)
FairSpec == Spec /\ WF_vars(Program)

\* the walk lists real directories only, each at most once at a time
WalksRealDirectories ==
    /\ \A i \in 2..Len(stack) : IsDirectory(fs0, stack[i].dir)
    /\ \A i, j \in 1..Len(stack) : stack[i].dir = stack[j].dir => i = j

\* C26: every run ends, and with exactly one of the three outcomes: success
\* with the count, error, or cancellation; until then it has none. The walk
\* lists directories only, not symlinks to them, and passes no path to
\* processPath twice.
C26_Terminates ==
    /\ [](pc = "exit" =>
             /\ outcome \in {"success", "error", "cancelled"}
             /\ outcome = "success" => count = CountProcessed
             /\ outcome # "success" => count = 0)
    /\ [](pc # "exit" => outcome = "running")
    /\ [](WalksRealDirectories)
    /\ [](\A i, j \in 1..Len(visited) : visited[i] = visited[j] => i = j)
    /\ (pc # "exit") ~> (pc = "exit")

\* a run has ended in success on a tree where a and b point at each other:
\* both were passed to processPath, found broken and kept
C26_Witness ==
    /\ pc = "exit" /\ outcome = "success"
    /\ \E p, q \in DOMAIN fs0 :
          /\ IsLink(fs0, p) /\ fs0[p].dest = RelDest(<<"b">>)
          /\ IsLink(fs0, q) /\ fs0[q].dest = RelDest(<<"a">>)
          /\ Dir(p) = Dir(q) /\ Base(p) = "a" /\ Base(q) = "b"
          /\ WasVisited(p) /\ WasVisited(q)
          /\ \E d \in Kept : d.path = p

\* C27: a run ends as cancelled exactly when a call of processPath found
\* the context cancelled; a run that a step or the walk aborted with an
\* error ends in error, and a run whose walk came to its end ends in success
\* with its count, whenever the interrupt arrives.
C27_CancelledIffObserved ==
    pc = "exit" =>
       /\ outcome = "cancelled" <=> failedAt = "processPath"
       /\ outcome = "error" <=> failedAt \notin {"", "processPath"}
       /\ outcome = "success" <=> failedAt = ""
       /\ outcome = "success" => count = CountProcessed

\* C28: when os.Chtimes fails, after the rename, the path holds the complete
\* copy as a regular file and no symlink, no temporary file is left, the
\* error names the path, the run aborts without success and without a
\* count, and with backups off the path is not in the processed-set (with
\* backups on backupSymlink has marked it before).
C28_ChtimesFailsAfterRename ==
    (Ended /\ failedAt = "chtimes") =>
       /\ IsFile(fs, symlinkPath)
       /\ fs[symlinkPath].content = srcContent
       /\ fs[symlinkPath].content = fs[targetFilePath].content
       /\ fs[symlinkPath].mode = originalFileInfo.mode
       /\ ~Exists(fs, tempPath)
       /\ errPath = symlinkPath
       /\ \A d \in ThisRun : d.path # symlinkPath
       /\ noBackup => symlinkPath \notin processedSymlinks
       /\ ~noBackup => (symlinkPath \in processedSymlinks /\ BackedUp(symlinkPath))
       /\ outcome \in {"running", "error", "cancelled"}
       /\ (pc = "exit" /\ ~ctxDone) => outcome = "error"
       /\ count = 0

\* with backups off, os.Chtimes has failed on the copy of a two-byte file:
\* the copy is in place, unmarked, and the run has ended in error
C28_Witness ==
    /\ pc = "exit" /\ outcome = "error" /\ failedAt = "chtimes" /\ noBackup
    /\ IsFile(fs, symlinkPath)
    /\ fs[symlinkPath].content = ExtContent
    /\ processedSymlinks = {}

\* backupSymlink is called for the link at p: it resolves, or it is broken
\* and the policy is "delete"
NeedsBackup(p) ==
    ~noBackup /\ (EvalSymlinks(fs0, p).ok \/ brokenSymlinks = "delete")

\* C29: with backups on, when an entry of the name of the symlink is in the
\* .symlink2file directory next to it, backupSymlink fails: the entry stays
\* as it was, the symlink stays as it was and is not marked, and the run
\* aborts with an error that names the path.
C29_ExistingBackupFails ==
    \A i \in 1..Len(visited) :
       LET p == visited[i] IN
       (NeedsBackup(p) /\ Exists(fs0, BackupPath(p))) =>
          /\ i = Len(visited)
          /\ pc \in {"processPath", "backupSymlink", "returned", "exit"}
          /\ fs[BackupPath(p)] = fs0[BackupPath(p)]
          /\ IsLink(fs, p) /\ fs[p] = fs0[p]
          /\ p \notin processedSymlinks
          /\ \A d \in ThisRun : d.path # p
          /\ outcome # "success"
          /\ (Ended /\ failedAt # "processPath") =>
                /\ failedAt = "backupSymlink" /\ errPath = p
                /\ (pc = "exit" /\ ~ctxDone) => outcome = "error"

\* a backup of a left by an earlier run, with another destination, is in the
\* way: the run has ended in error, the old backup and the link are as
\* they were
C29_Witness ==
    /\ pc = "exit" /\ outcome = "error" /\ failedAt = "backupSymlink"
    /\ Exists(fs0, BackupPath(symlinkPath))
    /\ fs[BackupPath(symlinkPath)] = fs0[BackupPath(symlinkPath)]
    /\ fs[BackupPath(symlinkPath)].dest # fs[symlinkPath].dest
    /\ IsLink(fs, symlinkPath)

====
